---- MODULE Spec2Model ----
(***************************************************************************)
(* Booking backend of the car-wash service (express handlers over a        *)
(* Firestore document store).  Two revisions of the server are in the      *)
(* repository and are modelled side by side:                               *)
(*   "index"    : src/index.js lines 1-706 (the current, hardened server)  *)
(*   "part_000" : src/unnamed/part_000 (the revision whose commit handler  *)
(*                carries the capacity admission check)                    *)
(* The variable rev fixes which revision is deployed; it never changes.    *)
(*                                                                         *)
(* Time is counted in minutes since 00:00 UTC of day 0; the server's local *)
(* timezone is UTC (the handlers' own comments: "UTC day, display SAST via *)
(* +120 min").  An HH:mm label is modelled by its minute of the day        *)
(* (60*HH + mm): zero-padded HH:mm strings compare exactly as these        *)
(* numbers do, and like the string the number forgets the calendar date.   *)
(***************************************************************************)
EXTENDS Integers, Sequences, FiniteSets, TLC

(* ------------------------------ bounds --------------------------------- *)
\* Number of concurrent request handlers.
NumProcs == 2
\* Requests are admitted while fewer than this many bookings are stored.
MaxBookings == 3
\* The same, for the day at the counter (SpecDay).
MaxDayBookings == 2
MaxLabelBookings == 1
MaxLedgerBookings == 11

(* ------------------------- program constants --------------------------- *)
openingHourUTC == 6
closingHourUTC == 14
slotInterval == 15
\* addMinutes(x, 120): UTC instant -> SAST wall clock
sastOffsetMinutes == 120
\* subHours(new Date(startTime), 2)
sastOffsetHours == 2
\* "?? 2" of the index.js settings resolution
defaultBaysIndex == 2
\* ": 1" of the part_000 settings resolution
defaultBaysPart000 == 1
\* newPoints >= 10
pointsPerFreeWash == 10
\* serviceDurations[sid] ?? 15, Number(...) || 15
fallbackDuration == 15

\* subHours(x, 2) counts hours of 60 minutes
MinutesPerHour == 60
MinutesPerDay == 24 * MinutesPerHour

(* ------------------------------ domains -------------------------------- *)
Revisions == {"index", "part_000"}
Procs == 1..NumProcs
Users == {"u1", "u2"}
Locations == {"loc1"}
\* calendar days (yyyy-MM-dd keys), by index
Dates == 0..1
\* services/{id} documents of the location: id -> durationInMinutes
ServiceDocs == [wash15 |-> 15, wash20 |-> 20, wash30 |-> 30]
\* service ids a request may carry; "gone" has no service document
ServiceIds == {"wash15", "wash20", "wash30", "gone"}

At(day, hh, mm) == day * MinutesPerDay + hh * MinutesPerHour + mm

(* --------------------------- JavaScript values ------------------------- *)
\* The values the settings expression can produce: a number, false, undefined.
JSNum(n) == [kind |-> "number", n |-> n]
JSFalse == [kind |-> "boolean", n |-> 0]
JSUndefined == [kind |-> "undefined", n |-> 0]
JSString == [kind |-> "string", n |-> 0]
\* a && b with a a genuine boolean
JSAnd(a, b) == IF a THEN b ELSE JSFalse
\* a ?? b : b only when a is null or undefined
Coalesce(a, b) == IF a.kind = "undefined" THEN b ELSE a
\* numeric coercion of the relational operators (false -> 0)
ToNumber(v) == v.n

(* ------------------------------ date-fns ------------------------------- *)
\* format(t, 'yyyy-MM-dd')
FormatDate(t) == t \div MinutesPerDay
\* format(t, 'HH:mm')
FormatHHmm(t) == t % MinutesPerDay
\* mutant: the offset is subtracted as minutes
subHoursAsMinutes(t, h) == t - h
\* subHours(t, h)
subHours(t, h) == t - h * MinutesPerHour
\* addMinutes(t, m)
addMinutes(t, m) == t + m
\* startOfDay / endOfDay of new Date(`${date}T00:00:00.000Z`)
startOfDay(date) == date * MinutesPerDay
endOfDay(date) == date * MinutesPerDay + (MinutesPerDay - 1)
\* Math.ceil(a / b) for a >= 0, b > 0
Ceil(a, b) == (a + b - 1) \div b
Max(a, b) == IF a >= b THEN a ELSE b

(* ------------------------------- state --------------------------------- *)
VARIABLES
  rev,        \* deployed revision
  bookings,   \* locations/*/bookings, in order of creation (index = document id)
  users,      \* users/{uid}: [exists, rewards: location -> entry]
  settings,   \* locations/{l}/settings: [daily: date -> doc, global: doc]
  blockedSlots, \* locations/{l}/blockedSlots: the documents, as <<date, slot>>
  now,        \* the server clock (what new Date() reads)
  pc,         \* per handler: the await it is suspended at
  req,        \* per handler: the request body
  local,      \* per handler: its local constants
  resp        \* per handler: the response sent

vars == <<rev, bookings, users, settings, blockedSlots, now, pc, req, local, resp>>

NoEntry == [present |-> FALSE, loyaltyPoints |-> 0, freeWashes |-> 0]
Entry(p, f) == [present |-> TRUE, loyaltyPoints |-> p, freeWashes |-> f]
NoProfile == [exists |-> FALSE, rewards |-> [l \in Locations |-> NoEntry]]
Profile(e) == [exists |-> TRUE, rewards |-> [l \in Locations |-> e]]
NoDoc == [exists |-> FALSE, activeBays |-> 0]
Doc(n) == [exists |-> TRUE, activeBays |-> n]

NoReq == [kind |-> "none", userId |-> "u1", serviceId |-> "wash15",
          startTime |-> 0, locationId |-> "loc1", date |-> 0, slot |-> 0,
          count |-> JSUndefined]
NoLocal == [size |-> 0, daily |-> NoDoc, activeBays |-> JSUndefined,
            userDoc |-> NoProfile, docRef |-> 0,
            enteredAt |-> 0, allSlots |-> <<>>, docs |-> {},
            blockedSlots |-> {}, unfiltered |-> <<>>, answeredAt |-> 0,
            availableSlots |-> <<>>, exists |-> FALSE, error |-> "none"]
NoResp == [status |-> 0, bookingId |-> 0]
Resp(s) == [status |-> s, bookingId |-> 0]

(* ----------------------- settings resolution --------------------------- *)
\* index.js: (daily.exists && daily.data()?.activeBays) ??
\*           (global.exists && global.data()?.activeBays) ?? 2
ActiveBaysIndex(dailySettingDoc, globalSettingsDoc) ==
  Coalesce(Coalesce(JSAnd(dailySettingDoc.exists, JSNum(dailySettingDoc.activeBays)),
                    JSAnd(globalSettingsDoc.exists, JSNum(globalSettingsDoc.activeBays))),
           JSNum(defaultBaysIndex))

\* part_000: daily.exists ? daily.activeBays : (global.exists ? global.activeBays : 1)
ActiveBaysPart000(dailySettingDoc, globalSettingsDoc) ==
  IF dailySettingDoc.exists THEN JSNum(dailySettingDoc.activeBays)
  ELSE IF globalSettingsDoc.exists THEN JSNum(globalSettingsDoc.activeBays)
  ELSE JSNum(defaultBaysPart000)

ActiveBays(r, dailySettingDoc, globalSettingsDoc) ==
  IF r = "index" THEN ActiveBaysIndex(dailySettingDoc, globalSettingsDoc)
  ELSE ActiveBaysPart000(dailySettingDoc, globalSettingsDoc)

\* the value a handler of revision r resolves from the store as it stands
ResolvedActiveBays(r, l, date) ==
  ActiveBays(r, settings[l].daily[date], settings[l].global)

(* ----------------------------- bookings -------------------------------- *)
\* subHours(new Date(startTime), 2)
correctUTCTime(startTime) == subHours(startTime, sastOffsetHours)

\* bookings.where('startTime', '==', t) of one location: the document ids
ExistingBookings(l, t) ==
  {i \in DOMAIN bookings : bookings[i].locationId = l /\ bookings[i].startTime = t}

\* the document POST /api/bookings adds
PaidBooking(r, size) ==
  [userId |-> r.userId, serviceId |-> r.serviceId, locationId |-> r.locationId,
   startTime |-> correctUTCTime(r.startTime), status |-> "paid", bayId |-> size + 1]

\* mutant: the start time is stored as requested, without subHours
FreeBookingNotConverted(r) ==
  [userId |-> r.userId, serviceId |-> r.serviceId, locationId |-> r.locationId,
   startTime |-> r.startTime, status |-> "free", bayId |-> 1]

\* the document POST /api/bookings/redeem-free-wash adds
FreeBooking(r) ==
  [userId |-> r.userId, serviceId |-> r.serviceId, locationId |-> r.locationId,
   startTime |-> correctUTCTime(r.startTime), status |-> "free", bayId |-> 1]

(* ------------------------------ rewards -------------------------------- *)
\* currentRewards[locationId] || { loyaltyPoints: 0, freeWashes: 0 }
LocationRewards(userDoc, l) ==
  IF userDoc.exists /\ userDoc.rewards[l].present THEN userDoc.rewards[l]
  ELSE Entry(0, 0)

\* mutant: the conversion threshold is tested with > instead of >=
AccruePointOffByOne(locationRewards) ==
  LET newPoints == locationRewards.loyaltyPoints + 1 IN
  IF newPoints > pointsPerFreeWash
    THEN Entry(0, locationRewards.freeWashes + 1)
    ELSE Entry(newPoints, locationRewards.freeWashes)

\* the entry POST /api/bookings writes back for an entry it has read
AccruePoint(locationRewards) ==
  LET newPoints == locationRewards.loyaltyPoints + 1 IN
  IF newPoints >= pointsPerFreeWash
    THEN Entry(0, locationRewards.freeWashes + 1)
    ELSE Entry(newPoints, locationRewards.freeWashes)

\* mutant: the balance is tested with >= 0 instead of >= 1
HasRewardsZeroAccepted(userDoc, l) ==
  /\ userDoc.exists
  /\ userDoc.rewards[l].present
  /\ userDoc.rewards[l].freeWashes >= 0

\* userDoc.exists && rewards && rewards[locationId] && rewards[locationId].freeWashes >= 1
HasRewards(userDoc, l) ==
  /\ userDoc.exists
  /\ userDoc.rewards[l].present
  /\ userDoc.rewards[l].freeWashes >= 1

\* mutant: the debit takes two free washes
DebitTwoFreeWashes(e) == [e EXCEPT !.present = TRUE, !.freeWashes = @ - 2]

\* update({ `rewards.${l}.freeWashes`: FieldValue.increment(-1) }) applied to an entry
DebitFreeWash(e) == [e EXCEPT !.present = TRUE, !.freeWashes = @ - 1]

(* --------------------------- slot grid, occupancy ---------------------- *)
\* allSlots: labels of [06:00, 14:00) UTC every 15 minutes, shown +120 minutes
RECURSIVE SlotsFrom(_, _)
SlotsFrom(currentTime, closingDateTime) ==
  IF currentTime < closingDateTime
    THEN <<FormatHHmm(addMinutes(currentTime, sastOffsetMinutes))>>
         \o SlotsFrom(addMinutes(currentTime, slotInterval), closingDateTime)
    ELSE <<>>

\* mutant: the closing time itself is still a slot
AllSlotsClosingIncluded(date) ==
  SlotsFrom(startOfDay(date) + openingHourUTC * MinutesPerHour,
            startOfDay(date) + closingHourUTC * MinutesPerHour + slotInterval)

AllSlots(date) ==
  SlotsFrom(startOfDay(date) + openingHourUTC * MinutesPerHour,
            startOfDay(date) + closingHourUTC * MinutesPerHour)

\* bookings of location l with startOfDay <= startTime <= endOfDay
DayBookings(l, date) ==
  {i \in DOMAIN bookings :
     /\ bookings[i].locationId = l
     /\ bookings[i].startTime >= startOfDay(date)
     /\ bookings[i].startTime <= endOfDay(date)}

ServiceExists(sid) == sid \in DOMAIN ServiceDocs

\* mutant: Math.floor in place of Math.ceil
NSlotsFloor(r, b) ==
  IF r = "index"
    THEN LET duration == IF ServiceExists(b.serviceId)
                           THEN ServiceDocs[b.serviceId] ELSE fallbackDuration
         IN Max(1, duration \div slotInterval)
    ELSE IF ServiceExists(b.serviceId)
           THEN ServiceDocs[b.serviceId] \div slotInterval
           ELSE 0

\* number of slots booking b is marked in; 0 when the revision skips it
NSlots(r, b) ==
  IF r = "index"
    THEN LET duration == IF ServiceExists(b.serviceId)
                           THEN ServiceDocs[b.serviceId] ELSE fallbackDuration
         IN Max(1, Ceil(duration, slotInterval))
    ELSE IF ServiceExists(b.serviceId)
           THEN Ceil(ServiceDocs[b.serviceId], slotInterval)
           ELSE 0

\* the marks "for (let i = 0; i < nSlots; i++)" makes: <<booking id, i>>
SlotMarks(r, l, date) ==
  UNION {{<<i, k>> : k \in 0..(NSlots(r, bookings[i]) - 1)} : i \in DayBookings(l, date)}

\* occupiedSlotCounts[s] || 0
OccupiedSlotCount(r, l, date, s) ==
  Cardinality({ik \in SlotMarks(r, l, date) :
     FormatHHmm(addMinutes(addMinutes(bookings[ik[1]].startTime, ik[2] * slotInterval),
                           sastOffsetMinutes)) = s})

(* ------------------------------- clock --------------------------------- *)
\* instants the server clock is read at: 14:00 and 14:20 SAST of day 0;
\* 22:30 UTC of day 0, when the SAST calendar already shows day 1; 09:10 SAST
\* of day 1; 22:30 UTC of day 1, when the SAST calendar already shows day 2
ClockInstants ==
  {At(0, 12, 0), At(0, 12, 20), At(0, 22, 30), At(1, 7, 10), At(1, 22, 30)}
InitialClock == At(0, 12, 0)

(* ------------------------------- Init ---------------------------------- *)
\* A store the handlers can have produced: no booking of the modelled days yet,
\* reward entries as earlier bookings left them, settings as the manager left them.
InitProfiles ==
  {NoProfile, Profile(NoEntry)}
    \cup {Profile(Entry(p, f)) : p \in {0, 8, 9}, f \in {0, 1}}
    \cup {Profile(Entry(0, 2))}
\* the second user starts without a profile or just short of a free wash
InitProfilesOther == {NoProfile, Profile(Entry(9, 1))}
InitDailyDocs == {NoDoc, Doc(1)}
InitGlobalDocs == {NoDoc, Doc(2)}

Init ==
  /\ rev \in Revisions
  /\ bookings = <<>>
  /\ blockedSlots = [l \in Locations |-> {}]
  /\ now = InitialClock
  /\ \E a \in InitProfiles, b \in InitProfilesOther :
       users = [u \in Users |-> IF u = "u1" THEN a ELSE b]
  /\ \E d \in InitDailyDocs, g \in InitGlobalDocs :
       settings = [l \in Locations |->
                     [daily |-> [x \in Dates |-> IF x = 1 THEN d ELSE NoDoc],
                      global |-> g]]
  /\ pc = [p \in Procs |-> "idle"]
  /\ req = [p \in Procs |-> NoReq]
  /\ local = [p \in Procs |-> NoLocal]
  /\ resp = [p \in Procs |-> NoResp]

(* ----------------------------- requests -------------------------------- *)
\* requested start times, reference-timezone wall clock encoded as an instant
StartTimes == {At(1, 9, 0), At(1, 9, 15)}
Kinds == {"commit", "redeem", "verify"}

Request(k, u, s, t, l) ==
  [kind |-> k, userId |-> u, serviceId |-> s, startTime |-> t, locationId |-> l,
   date |-> 0, slot |-> 0, count |-> JSUndefined]

\* the first await of each handler
FirstPc(r, k) ==
  IF k = "commit" THEN (IF r = "index" THEN "c_query" ELSE "c_daily")
  ELSE IF k = "redeem" THEN "r_getUser"
  ELSE "v_settings"

\* A request arrives at handler p (all required fields present).
\* POST /api/bookings/verify-slot exists in index.js only.
Accept(p, k, u, s, t, l) ==
  /\ k = "verify" => rev = "index"
  /\ pc' = [pc EXCEPT ![p] = FirstPc(rev, k)]
  /\ req' = [req EXCEPT ![p] = Request(k, u, s, t, l)]
  /\ local' = [local EXCEPT ![p] = NoLocal]
  /\ resp' = [resp EXCEPT ![p] = NoResp]
  /\ UNCHANGED <<rev, blockedSlots, now, bookings, users, settings>>

\* the same, while the store holds fewer than MaxBookings bookings
Receive(p, k, u, s, t, l) ==
  /\ k \in {"commit", "redeem"} => Len(bookings) < MaxBookings
  /\ Accept(p, k, u, s, t, l)

\* res.status(s).json(...): the handler is finished
Respond(p, r) ==
  /\ pc' = [pc EXCEPT ![p] = "done"]
  /\ resp' = [resp EXCEPT ![p] = r]

Goto(p, label) ==
  /\ pc' = [pc EXCEPT ![p] = label]
  /\ UNCHANGED resp

(* ----------------------- POST /api/bookings ---------------------------- *)
\* part_000: await settingsRef.doc(dateKey).get()
CommitDaily(p) ==
  /\ pc[p] = "c_daily"
  /\ LET dateKey == FormatDate(correctUTCTime(req[p].startTime)) IN
     local' = [local EXCEPT ![p].daily = settings[req[p].locationId].daily[dateKey]]
  /\ Goto(p, "c_global")
  /\ UNCHANGED <<rev, blockedSlots, now, bookings, users, settings, req>>

\* part_000: await settingsRef.doc('global').get(); activeBays
CommitGlobal(p) ==
  /\ pc[p] = "c_global"
  /\ local' = [local EXCEPT ![p].activeBays =
                 ActiveBays(rev, local[p].daily, settings[req[p].locationId].global)]
  /\ Goto(p, "c_query")
  /\ UNCHANGED <<rev, blockedSlots, now, bookings, users, settings, req>>

\* await ...where('startTime', '==', correctUTCTime).get();
\* part_000 only: if (existingBookings.size >= activeBays) return 409
SlotTaken(r, size, activeBays) ==
  r = "part_000" /\ size >= ToNumber(activeBays)

CommitQuery(p) ==
  /\ pc[p] = "c_query"
  /\ LET size == Cardinality(ExistingBookings(req[p].locationId,
                                               correctUTCTime(req[p].startTime))) IN
     /\ local' = [local EXCEPT ![p].size = size]
     /\ IF SlotTaken(rev, size, local[p].activeBays)
          THEN Respond(p, Resp(409))
          ELSE Goto(p, "c_add")
  /\ UNCHANGED <<rev, blockedSlots, now, bookings, users, settings, req>>

\* const docRef = await ...collection('bookings').add(newBooking)
CommitAdd(p) ==
  /\ pc[p] = "c_add"
  /\ bookings' = Append(bookings, PaidBooking(req[p], local[p].size))
  /\ local' = [local EXCEPT ![p].docRef = Len(bookings) + 1]
  /\ Goto(p, "c_getUser")
  /\ UNCHANGED <<rev, blockedSlots, now, users, settings, req>>

\* let userDoc = await userRef.get();
\* index.js: a missing profile is created; part_000: 404
CommitGetUser(p) ==
  /\ pc[p] = "c_getUser"
  /\ local' = [local EXCEPT ![p].userDoc = users[req[p].userId]]
  /\ IF users[req[p].userId].exists THEN Goto(p, "c_update")
     ELSE IF rev = "index" THEN Goto(p, "c_setProfile")
     ELSE Respond(p, Resp(404))
  /\ UNCHANGED <<rev, blockedSlots, now, bookings, users, settings, req>>

\* index.js: await admin.auth().getUser(userId); await userRef.set(userProfile)
CommitSetProfile(p) ==
  /\ pc[p] = "c_setProfile"
  /\ users' = [users EXCEPT ![req[p].userId] = Profile(NoEntry)]
  /\ Goto(p, "c_getUser2")
  /\ UNCHANGED <<rev, blockedSlots, now, bookings, settings, req, local>>

\* index.js: userDoc = await userRef.get()
CommitGetUser2(p) ==
  /\ pc[p] = "c_getUser2"
  /\ local' = [local EXCEPT ![p].userDoc = users[req[p].userId]]
  /\ Goto(p, "c_update")
  /\ UNCHANGED <<rev, blockedSlots, now, bookings, users, settings, req>>

\* await userRef.update({ [`rewards.${locationId}`]: locationRewards }); 201
CommitUpdate(p) ==
  /\ pc[p] = "c_update"
  /\ users' = [users EXCEPT ![req[p].userId].rewards[req[p].locationId] =
                 AccruePoint(LocationRewards(local[p].userDoc, req[p].locationId))]
  /\ Respond(p, [status |-> 201, bookingId |-> local[p].docRef])
  /\ UNCHANGED <<rev, blockedSlots, now, bookings, settings, req, local>>

(* ----------------- POST /api/bookings/redeem-free-wash ------------------ *)
\* const userDoc = await userRef.get(); if (!hasRewards) return 403
RedeemGetUser(p) ==
  /\ pc[p] = "r_getUser"
  /\ local' = [local EXCEPT ![p].userDoc = users[req[p].userId]]
  /\ IF HasRewards(users[req[p].userId], req[p].locationId)
       THEN Goto(p, "r_add")
       ELSE Respond(p, Resp(403))
  /\ UNCHANGED <<rev, blockedSlots, now, bookings, users, settings, req>>

\* await ...collection('bookings').add(newBooking)
RedeemAdd(p) ==
  /\ pc[p] = "r_add"
  /\ bookings' = Append(bookings, FreeBooking(req[p]))
  /\ local' = [local EXCEPT ![p].docRef = Len(bookings) + 1]
  /\ Goto(p, "r_update")
  /\ UNCHANGED <<rev, blockedSlots, now, users, settings, req>>

\* await userRef.update({ [`rewards.${l}.freeWashes`]: increment(-1) }); 201
RedeemUpdate(p) ==
  /\ pc[p] = "r_update"
  /\ users' = [users EXCEPT ![req[p].userId].rewards[req[p].locationId] =
                 DebitFreeWash(@)]
  /\ Respond(p, Resp(201))
  /\ UNCHANGED <<rev, blockedSlots, now, bookings, settings, req, local>>

(* -------------------- POST /api/bookings/verify-slot ------------------- *)
\* const [daily, global] = await Promise.all([...]); activeBays
VerifySettings(p) ==
  /\ pc[p] = "v_settings"
  /\ LET dateKey == FormatDate(correctUTCTime(req[p].startTime)) IN
     local' = [local EXCEPT ![p].activeBays =
                 ResolvedActiveBays(rev, req[p].locationId, dateKey)]
  /\ Goto(p, "v_query")
  /\ UNCHANGED <<rev, blockedSlots, now, bookings, users, settings, req>>

\* existingBookings.size >= activeBays ? 409 : 200
VerifyQuery(p) ==
  /\ pc[p] = "v_query"
  /\ LET size == Cardinality(ExistingBookings(req[p].locationId,
                                               correctUTCTime(req[p].startTime))) IN
     /\ local' = [local EXCEPT ![p].size = size]
     /\ IF size >= ToNumber(local[p].activeBays)
          THEN Respond(p, Resp(409))
          ELSE Respond(p, Resp(200))
  /\ UNCHANGED <<rev, blockedSlots, now, bookings, users, settings, req>>

(* ----------------------- GET /api/availability ------------------------- *)
AvailRequest(l, date) ==
  [kind |-> "avail", userId |-> "u1", serviceId |-> "wash15", startTime |-> 0,
   locationId |-> l, date |-> date, slot |-> 0, count |-> JSUndefined]

\* isBefore(requestedDate, startOfToday()) when the server clock reads t
IsPastDate(date, t) == startOfDay(date) < startOfDay(FormatDate(t))

\* mutant: the cutoff is applied whatever the requested date
IsSameDayAlways(date, t) == TRUE

\* isSameDay(requestedDate, new Date()) when the server clock reads t
IsSameDay(date, t) == FormatDate(startOfDay(date)) = FormatDate(t)

\* format(addMinutes(new Date(), 120), 'HH:mm')
NowSAST(t) == FormatHHmm(addMinutes(t, sastOffsetMinutes))

\* mutant: the marks are labelled in UTC, without the +120 minutes
CountInUTCLabels(r, docs, s) ==
  Cardinality({ik \in UNION {{<<i, k>> : k \in 0..(NSlots(r, bookings[i]) - 1)} : i \in docs} :
     FormatHHmm(addMinutes(bookings[ik[1]].startTime, ik[2] * slotInterval)) = s})

\* occupiedSlotCounts[s] || 0 after the marking loop over the snapshot docs
CountIn(r, docs, s) ==
  Cardinality({ik \in UNION {{<<i, k>> : k \in 0..(NSlots(r, bookings[i]) - 1)} : i \in docs} :
     FormatHHmm(addMinutes(addMinutes(bookings[ik[1]].startTime, ik[2] * slotInterval),
                           sastOffsetMinutes)) = s})

\* mutant: a slot filled to capacity is still offered
AvailableSlotsFullOffered(allSlots, r, docs, activeBays, blocked) ==
  LET Free(s) == CountIn(r, docs, s) <= ToNumber(activeBays) /\ s \notin blocked
  IN SelectSeq(allSlots, Free)

\* allSlots.filter(s => ((occupiedSlotCounts[s] || 0) < activeBays) && !blockedSlots.has(s))
AvailableSlots(allSlots, r, docs, activeBays, blocked) ==
  LET Free(s) == CountIn(r, docs, s) < ToNumber(activeBays) /\ s \notin blocked
  IN SelectSeq(allSlots, Free)

\* mutant: the slot that starts this very minute is kept
RemovePastInclusive(availableSlots, t) ==
  LET Later(s) == s >= NowSAST(t) IN SelectSeq(availableSlots, Later)

\* availableSlots.filter(s => s > nowSAST)
RemovePast(availableSlots, t) ==
  LET Later(s) == s > NowSAST(t) IN SelectSeq(availableSlots, Later)

\* the request arrives; a date before the server's today is answered at once
ReceiveAvail(p, l, date) ==
  /\ req' = [req EXCEPT ![p] = AvailRequest(l, date)]
  /\ local' = [local EXCEPT ![p] = [NoLocal EXCEPT !.enteredAt = now]]
  /\ IF IsPastDate(date, now)
       THEN Respond(p, Resp(200))
       ELSE /\ pc' = [pc EXCEPT ![p] = IF rev = "index" THEN "a_settings" ELSE "a_daily"]
            /\ resp' = [resp EXCEPT ![p] = NoResp]
  /\ UNCHANGED <<rev, bookings, users, settings, blockedSlots, now>>

\* index.js: both settings documents are read together, then the grid is built
AvailSettings(p) ==
  /\ pc[p] = "a_settings"
  /\ local' = [local EXCEPT
       ![p].activeBays = ActiveBays(rev, settings[req[p].locationId].daily[req[p].date],
                                    settings[req[p].locationId].global),
       ![p].allSlots = AllSlots(req[p].date)]
  /\ Goto(p, "a_bookings")
  /\ UNCHANGED <<rev, bookings, users, settings, blockedSlots, now, req>>

\* part_000: the daily settings document
AvailDaily(p) ==
  /\ pc[p] = "a_daily"
  /\ local' = [local EXCEPT ![p].daily = settings[req[p].locationId].daily[req[p].date]]
  /\ Goto(p, "a_global")
  /\ UNCHANGED <<rev, bookings, users, settings, blockedSlots, now, req>>

\* part_000: the global settings document, then the grid is built
AvailGlobal(p) ==
  /\ pc[p] = "a_global"
  /\ local' = [local EXCEPT
       ![p].activeBays = ActiveBays(rev, local[p].daily, settings[req[p].locationId].global),
       ![p].allSlots = AllSlots(req[p].date)]
  /\ Goto(p, "a_bookings")
  /\ UNCHANGED <<rev, bookings, users, settings, blockedSlots, now, req>>

\* the bookings of the requested UTC day
AvailBookings(p) ==
  /\ pc[p] = "a_bookings"
  /\ local' = [local EXCEPT ![p].docs = DayBookings(req[p].locationId, req[p].date)]
  /\ Goto(p, "a_services")
  /\ UNCHANGED <<rev, bookings, users, settings, blockedSlots, now, req>>

\* the service documents of the snapshot are read (they never change)
AvailServices(p) ==
  /\ pc[p] = "a_services"
  /\ Goto(p, "a_blocked")
  /\ UNCHANGED <<rev, bookings, users, settings, blockedSlots, now, req, local>>

\* the blocked slots of the date, the filter, the same-day cutoff, the answer
AvailBlocked(p) ==
  /\ pc[p] = "a_blocked"
  /\ LET blocked == {ds[2] : ds \in {x \in blockedSlots[req[p].locationId] :
                                       x[1] = req[p].date}}
         unfiltered == AvailableSlots(local[p].allSlots, rev, local[p].docs,
                                      local[p].activeBays, blocked)
     IN local' = [local EXCEPT
          ![p].blockedSlots = blocked,
          ![p].unfiltered = unfiltered,
          ![p].answeredAt = now,
          ![p].availableSlots = IF IsSameDay(req[p].date, now)
                                  THEN RemovePast(unfiltered, now)
                                  ELSE unfiltered]
  /\ Respond(p, Resp(200))
  /\ UNCHANGED <<rev, bookings, users, settings, blockedSlots, now, req>>

(* ------------------- POST /api/manager/blocked-slots ------------------- *)
\* slot labels a manager toggles
ToggleSlots == {At(0, 9, 0), At(0, 9, 15)}

ToggleRequest(l, date, slot) ==
  [kind |-> "toggle", userId |-> "u1", serviceId |-> "wash15", startTime |-> 0,
   locationId |-> l, date |-> date, slot |-> slot, count |-> JSUndefined]

ReceiveToggle(p, l, date, slot) ==
  /\ req' = [req EXCEPT ![p] = ToggleRequest(l, date, slot)]
  /\ local' = [local EXCEPT ![p] = NoLocal]
  /\ pc' = [pc EXCEPT ![p] = "t_get"]
  /\ resp' = [resp EXCEPT ![p] = NoResp]
  /\ UNCHANGED <<rev, bookings, users, settings, blockedSlots, now>>

\* const doc = await slotRef.get()
ToggleGet(p) ==
  /\ pc[p] = "t_get"
  /\ local' = [local EXCEPT ![p].exists =
                 <<req[p].date, req[p].slot>> \in blockedSlots[req[p].locationId]]
  /\ Goto(p, "t_write")
  /\ UNCHANGED <<rev, bookings, users, settings, blockedSlots, now, req>>

\* mutant: the document is written whether or not it was found
ToggledAlwaysSet(docs, exists, date, slot) == docs \cup {<<date, slot>>}

\* mutant: the write is decided by the store as it is when the write lands,
\* not by the document read before it
ToggledFromStore(docs, exists, date, slot) ==
  IF <<date, slot>> \in docs THEN docs \ {<<date, slot>>} ELSE docs \cup {<<date, slot>>}

\* doc.exists ? slotRef.delete() : slotRef.set({ date, slot })
Toggled(docs, exists, date, slot) ==
  IF exists THEN docs \ {<<date, slot>>} ELSE docs \cup {<<date, slot>>}

ToggleWrite(p) ==
  /\ pc[p] = "t_write"
  /\ blockedSlots' = [blockedSlots EXCEPT ![req[p].locationId] =
                        Toggled(@, local[p].exists, req[p].date, req[p].slot)]
  /\ Respond(p, Resp(200))
  /\ UNCHANGED <<rev, bookings, users, settings, now, req, local>>

(* -------------- POST /api/manager/settings/activeBays ------------------ *)
\* the counts a manager sends: numbers, and a value that is not a number
Counts == {JSNum(0), JSNum(1), JSNum(3), JSString}

SettingsRequest(l, date, count) ==
  [kind |-> "settings", userId |-> "u1", serviceId |-> "wash15", startTime |-> 0,
   locationId |-> l, date |-> date, slot |-> 0, count |-> count]

\* typeof count !== 'number'
InvalidCount(count) == count.kind # "number"

\* if (typeof count !== 'number' || !date || !locationId) return 400
ReceiveSettings(p, l, date, count) ==
  /\ req' = [req EXCEPT ![p] = SettingsRequest(l, date, count)]
  /\ local' = [local EXCEPT ![p] = NoLocal]
  /\ IF InvalidCount(count)
       THEN Respond(p, Resp(400))
       ELSE /\ pc' = [pc EXCEPT ![p] = "s_set"]
            /\ resp' = [resp EXCEPT ![p] = NoResp]
  /\ UNCHANGED <<rev, bookings, users, settings, blockedSlots, now>>

\* await ...collection('settings').doc(date).set({ activeBays: count }, { merge: true })
SettingsSet(p) ==
  /\ pc[p] = "s_set"
  /\ settings' = [settings EXCEPT ![req[p].locationId].daily[req[p].date] =
                    Doc(ToNumber(req[p].count))]
  /\ Respond(p, Resp(200))
  /\ UNCHANGED <<rev, bookings, users, blockedSlots, now, req, local>>

(* ----------------------------- the clock ------------------------------- *)
Tick ==
  /\ \E t \in ClockInstants : t > now /\ now' = t
  /\ UNCHANGED <<rev, bookings, users, settings, blockedSlots, pc, req, local, resp>>

(* ------------------------- a failing store call ------------------------ *)
\* the awaits of POST /api/bookings, all inside its try block
CommitAwaits ==
  {"c_daily", "c_global", "c_query", "c_add", "c_getUser", "c_setProfile",
   "c_getUser2", "c_update"}

\* mutant: the rejection is swallowed and the handler goes on
OnStoreErrorIgnored(p) ==
  /\ pc' = [pc EXCEPT ![p] =
       CASE pc[p] = "c_daily" -> "c_global"
         [] pc[p] = "c_global" -> "c_query"
         [] pc[p] = "c_query" -> "c_add"
         [] pc[p] = "c_add" -> "c_getUser"
         [] pc[p] = "c_getUser" -> "c_update"
         [] pc[p] = "c_setProfile" -> "c_getUser2"
         [] pc[p] = "c_getUser2" -> "c_update"
         [] OTHER -> "done"]
  /\ resp' = [resp EXCEPT ![p] = IF pc[p] = "c_update" THEN Resp(500) ELSE NoResp]
  /\ local' = [local EXCEPT ![p].error = pc[p]]

\* catch (error) { console.error(..., error); res.status(500).json({ error: 'Failed to create booking.' }) }
OnStoreError(p) ==
  /\ Respond(p, Resp(500))
  /\ local' = [local EXCEPT ![p].error = pc[p]]

\* the store call handler p is suspended at rejects without taking effect
Fail(p) ==
  /\ pc[p] \in CommitAwaits
  /\ OnStoreError(p)
  /\ UNCHANGED <<rev, bookings, users, settings, blockedSlots, now, req>>

(* --------------------------- specifications ---------------------------- *)
Step(p) ==
  \/ CommitDaily(p)
  \/ CommitGlobal(p)
  \/ CommitQuery(p)
  \/ CommitAdd(p)
  \/ CommitGetUser(p)
  \/ CommitSetProfile(p)
  \/ CommitGetUser2(p)
  \/ CommitUpdate(p)
  \/ RedeemGetUser(p)
  \/ RedeemAdd(p)
  \/ RedeemUpdate(p)
  \/ VerifySettings(p)
  \/ VerifyQuery(p)

\* Concurrent requests: each handler serves one request, the handlers
\* interleave at their awaits.
Arrive(p) ==
  /\ pc[p] = "idle"
  /\ \E k \in Kinds, u \in Users, s \in {"wash15", "wash30"}, t \in StartTimes,
        l \in Locations : Receive(p, k, u, s, t, l)

Next == \E p \in Procs : Arrive(p) \/ Step(p)

Spec == Init /\ [][Next]_vars

\* Requests one after the other: a request arrives only when no handler is
\* in flight, and handler 1 serves them all.
Quiet == \A q \in Procs : pc[q] \in {"idle", "done"}

ArriveSeq(p) ==
  /\ p = 1
  /\ Quiet
  /\ \E k \in Kinds, u \in Users, s \in {"wash15"}, t \in StartTimes,
        l \in Locations : Receive(p, k, u, s, t, l)

NextSeq == \E p \in Procs : ArriveSeq(p) \/ Step(p)

SpecSeq == Init /\ [][NextSeq]_vars

\* One day at the counter: bookings are committed, availability is asked
\* for, the manager toggles blocked slots and the clock advances; requests
\* come one after the other and handler 1 serves them all.
InitDay ==
  /\ rev \in Revisions
  /\ bookings = <<>>
  /\ blockedSlots = [l \in Locations |-> {}]
  /\ now = InitialClock
  /\ users = [u \in Users |-> Profile(NoEntry)]
  /\ \E d \in InitDailyDocs :
       settings = [l \in Locations |->
                     [daily |-> [x \in Dates |-> IF x = 1 THEN d ELSE NoDoc],
                      global |-> Doc(defaultBaysIndex)]]
  /\ pc = [p \in Procs |-> "idle"]
  /\ req = [p \in Procs |-> NoReq]
  /\ local = [p \in Procs |-> NoLocal]
  /\ resp = [p \in Procs |-> NoResp]

ArriveDay(p) ==
  /\ p = 1
  /\ Quiet
  /\ \/ /\ Len(bookings) < MaxDayBookings
        /\ \E s \in {"wash20", "gone"}, t \in StartTimes, l \in Locations :
             Receive(p, "commit", "u1", s, t, l)
     \/ \E l \in Locations, date \in Dates : ReceiveAvail(p, l, date)
     \/ \E l \in Locations, slot \in ToggleSlots : ReceiveToggle(p, l, 1, slot)

StepDay(p) ==
  \/ CommitDaily(p)
  \/ CommitGlobal(p)
  \/ CommitQuery(p)
  \/ CommitAdd(p)
  \/ CommitGetUser(p)
  \/ CommitUpdate(p)
  \/ AvailSettings(p)
  \/ AvailDaily(p)
  \/ AvailGlobal(p)
  \/ AvailBookings(p)
  \/ AvailServices(p)
  \/ AvailBlocked(p)
  \/ ToggleGet(p)
  \/ ToggleWrite(p)

NextDay == Tick \/ \E p \in Procs : ArriveDay(p) \/ StepDay(p)

SpecDay == InitDay /\ [][NextDay]_vars

\* Commits one after the other over a store whose calls may fail.
ArriveFault(p) ==
  /\ p = 1
  /\ Quiet
  /\ \E u \in Users, t \in StartTimes, l \in Locations :
       Receive(p, "commit", u, "wash15", t, l)

StepFault(p) ==
  \/ CommitDaily(p)
  \/ CommitGlobal(p)
  \/ CommitQuery(p)
  \/ CommitAdd(p)
  \/ CommitGetUser(p)
  \/ CommitSetProfile(p)
  \/ CommitGetUser2(p)
  \/ CommitUpdate(p)
  \/ Fail(p)

NextFault == \E p \in Procs : ArriveFault(p) \/ StepFault(p)

SpecFault == Init /\ [][NextFault]_vars

\* Availability asked for again and again over a store nobody writes to:
\* the two handlers answer one after the other while the clock advances.
AskStores ==
  {<<>>, <<PaidBooking(Request("commit", "u1", "wash30", At(1, 9, 0), "loc1"), 0)>>}

InitAsk ==
  /\ rev \in Revisions
  /\ bookings \in AskStores
  /\ blockedSlots = [l \in Locations |-> {}]
  /\ now = InitialClock
  /\ users = [u \in Users |-> Profile(NoEntry)]
  /\ \E d \in InitDailyDocs :
       settings = [l \in Locations |->
                     [daily |-> [x \in Dates |-> d],
                      global |-> Doc(defaultBaysIndex)]]
  /\ pc = [p \in Procs |-> "idle"]
  /\ req = [p \in Procs |-> NoReq]
  /\ local = [p \in Procs |-> NoLocal]
  /\ resp = [p \in Procs |-> NoResp]

ArriveAsk(p) ==
  /\ p <= 2
  /\ Quiet
  /\ \E l \in Locations, date \in Dates : ReceiveAvail(p, l, date)

StepAsk(p) ==
  \/ AvailSettings(p)
  \/ AvailDaily(p)
  \/ AvailGlobal(p)
  \/ AvailBookings(p)
  \/ AvailServices(p)
  \/ AvailBlocked(p)

NextAsk == Tick \/ \E p \in Procs : ArriveAsk(p) \/ StepAsk(p)

SpecAsk == InitAsk /\ [][NextAsk]_vars

\* The manager's toggles alone, any number of them in flight at once, over a
\* store that starts with any of the keys blocked.
InitToggle ==
  /\ rev \in Revisions
  /\ bookings = <<>>
  /\ blockedSlots \in [Locations -> SUBSET ({1} \X ToggleSlots)]
  /\ now = InitialClock
  /\ users = [u \in Users |-> Profile(NoEntry)]
  /\ settings = [l \in Locations |->
                   [daily |-> [x \in Dates |-> NoDoc], global |-> Doc(defaultBaysIndex)]]
  /\ pc = [p \in Procs |-> "idle"]
  /\ req = [p \in Procs |-> NoReq]
  /\ local = [p \in Procs |-> NoLocal]
  /\ resp = [p \in Procs |-> NoResp]

ArriveToggle(p) ==
  /\ pc[p] \in {"idle", "done"}
  /\ \E l \in Locations, slot \in ToggleSlots : ReceiveToggle(p, l, 1, slot)

StepToggle(p) ==
  \/ ToggleGet(p)
  \/ ToggleWrite(p)

NextToggle == \E p \in Procs : ArriveToggle(p) \/ StepToggle(p)

SpecToggle == InitToggle /\ [][NextToggle]_vars

\* Bookings at every label of the grid: the client books the labels that
\* availability lists for day 1, by a paid commit or by redeeming a free
\* wash, one request after the other.
LabelStartTimes == {startOfDay(1) + s : s \in {AllSlots(1)[i] : i \in DOMAIN AllSlots(1)}}

InitLabel ==
  /\ rev \in Revisions
  /\ bookings = <<>>
  /\ blockedSlots = [l \in Locations |-> {}]
  /\ now = InitialClock
  /\ users = [u \in Users |-> Profile(Entry(0, 1))]
  /\ settings = [l \in Locations |->
                   [daily |-> [x \in Dates |-> NoDoc], global |-> Doc(defaultBaysIndex)]]
  /\ pc = [p \in Procs |-> "idle"]
  /\ req = [p \in Procs |-> NoReq]
  /\ local = [p \in Procs |-> NoLocal]
  /\ resp = [p \in Procs |-> NoResp]

ArriveLabel(p) ==
  /\ p = 1
  /\ Quiet
  /\ Len(bookings) < MaxLabelBookings
  /\ \E k \in {"commit", "redeem"}, s \in {"wash15", "wash20"}, t \in LabelStartTimes,
        l \in Locations : Receive(p, k, "u1", s, t, l)

StepLabel(p) ==
  \/ CommitDaily(p)
  \/ CommitGlobal(p)
  \/ CommitQuery(p)
  \/ CommitAdd(p)
  \/ CommitGetUser(p)
  \/ CommitUpdate(p)
  \/ RedeemGetUser(p)
  \/ RedeemAdd(p)
  \/ RedeemUpdate(p)

NextLabel == \E p \in Procs : ArriveLabel(p) \/ StepLabel(p)

SpecLabel == InitLabel /\ [][NextLabel]_vars

\* The manager sets activeBays for one date after the other, over a store
\* whose settings records, where present, hold integers >= 1.
InitManager ==
  /\ rev \in Revisions
  /\ bookings = <<>>
  /\ blockedSlots = [l \in Locations |-> {}]
  /\ now = InitialClock
  /\ users = [u \in Users |-> Profile(NoEntry)]
  /\ \E d \in InitDailyDocs, g \in InitGlobalDocs :
       settings = [l \in Locations |->
                     [daily |-> [x \in Dates |-> IF x = 1 THEN d ELSE NoDoc],
                      global |-> g]]
  /\ pc = [p \in Procs |-> "idle"]
  /\ req = [p \in Procs |-> NoReq]
  /\ local = [p \in Procs |-> NoLocal]
  /\ resp = [p \in Procs |-> NoResp]

ArriveManager(p) ==
  /\ p = 1
  /\ Quiet
  /\ \E l \in Locations, date \in Dates, count \in Counts :
       ReceiveSettings(p, l, date, count)

NextManager == \E p \in Procs : ArriveManager(p) \/ SettingsSet(p)

SpecManager == InitManager /\ [][NextManager]_vars

\* The ledger of one customer from the first booking on: u1 commits paid
\* bookings and redeems free washes, one request after the other, from a
\* store with no bookings and no rewards; the daily record leaves room for
\* every booking at the one start instant used.
InitLedger ==
  /\ rev \in Revisions
  /\ bookings = <<>>
  /\ blockedSlots = [l \in Locations |-> {}]
  /\ now = InitialClock
  /\ \E pr \in {NoProfile, Profile(NoEntry)} :
       users = [u \in Users |-> IF u = "u1" THEN pr ELSE Profile(NoEntry)]
  /\ settings = [l \in Locations |->
                   [daily |-> [x \in Dates |-> Doc(MaxLedgerBookings)],
                    global |-> NoDoc]]
  /\ pc = [p \in Procs |-> "idle"]
  /\ req = [p \in Procs |-> NoReq]
  /\ local = [p \in Procs |-> NoLocal]
  /\ resp = [p \in Procs |-> NoResp]

ArriveLedger(p) ==
  /\ p = 1
  /\ Quiet
  /\ Len(bookings) < MaxLedgerBookings
  /\ \E k \in {"commit", "redeem"}, l \in Locations :
       Accept(p, k, "u1", "wash15", At(1, 9, 0), l)

StepLedger(p) ==
  \/ CommitDaily(p)
  \/ CommitGlobal(p)
  \/ CommitQuery(p)
  \/ CommitAdd(p)
  \/ CommitGetUser(p)
  \/ CommitSetProfile(p)
  \/ CommitGetUser2(p)
  \/ CommitUpdate(p)
  \/ RedeemGetUser(p)
  \/ RedeemAdd(p)
  \/ RedeemUpdate(p)

NextLedger == \E p \in Procs : ArriveLedger(p) \/ StepLedger(p)

SpecLedger == InitLedger /\ [][NextLedger]_vars

(* ======================================================================= *)
(*                              the claims                                  *)
(* ======================================================================= *)
\* what the handlers of request p are about
DateKeyOf(p) == FormatDate(correctUTCTime(req[p].startTime))
Finished(p, k) == pc[p] = "done" /\ req[p].kind = k
Moves(p, label) == pc[p] = label /\ pc'[p] # label

\* the settings resolution as documented: daily record, else global record, else 2
DocumentedActiveBays(l, date) ==
  IF settings[l].daily[date].exists THEN settings[l].daily[date].activeBays
  ELSE IF settings[l].global.exists THEN settings[l].global.activeBays
  ELSE 2

\* occupancy of every grid slot of every date is within the resolved activeBays
CapacityRespected ==
  \A l \in Locations, date \in Dates :
    \A k \in 1..Len(AllSlots(date)) :
      OccupiedSlotCount(rev, l, date, AllSlots(date)[k])
        <= ToNumber(ResolvedActiveBays(rev, l, date))

\* every stored booking is the paid booking of a commit that answered 201
OnlySuccessfulCommits ==
  /\ Quiet
  /\ \A i \in DOMAIN bookings :
       /\ bookings[i].status = "paid"
       /\ \E p \in Procs : /\ Finished(p, "commit")
                           /\ resp[p] = [status |-> 201, bookingId |-> i]

\* C1: after any sequence of successful paid booking commits, every slot of
\* every date holds at most activeBays bookings (a booking occupies
\* ceil(duration/15) consecutive slots from its start slot).  Stated for the
\* dates that have a daily settings record, so that the bound is the number the
\* manager stored.
C1_CapacityInvariant ==
  (OnlySuccessfulCommits /\ \A l \in Locations : settings[l].daily[1].exists)
    => CapacityRespected

\* C2: two commits for the same location and start instant that overlap (each
\* ran its query while the instant was still empty), activeBays = 1, no other
\* booking at that instant: exactly one answers 201 and holds bayId 1, the
\* other answers 409, and one booking is stored for the instant.
C2_ExactlyOneCommitWins ==
  \A p \in Procs, q \in Procs :
    LET l == req[p].locationId
        t == correctUTCTime(req[p].startTime)
    IN ( /\ p # q
         /\ Finished(p, "commit") /\ Finished(q, "commit")
         /\ req[q].locationId = l /\ req[q].startTime = req[p].startTime
         /\ local[p].size = 0 /\ local[q].size = 0
         /\ users[req[p].userId].exists /\ users[req[q].userId].exists
         /\ resp[p].status # 404 /\ resp[q].status # 404
         /\ settings[l].daily[DateKeyOf(p)].exists
         /\ ResolvedActiveBays(rev, l, DateKeyOf(p)) = JSNum(1)
         /\ ExistingBookings(l, t) \subseteq {local[p].docRef, local[q].docRef} )
       => /\ Cardinality(ExistingBookings(l, t)) = 1
          /\ {resp[p].status, resp[q].status} = {201, 409}
          /\ \A i \in ExistingBookings(l, t) : bookings[i].bayId = 1

\* C3: a commit that finds at least activeBays bookings stored at its start
\* instant answers 409, stores no booking and leaves the rewards unchanged.
C3_FullInstantIsRefused ==
  [][\A p \in Procs :
       ( /\ req[p].kind = "commit"
         /\ Moves(p, "c_query")
         /\ settings[req[p].locationId].daily[DateKeyOf(p)].exists
         /\ Cardinality(ExistingBookings(req[p].locationId,
                                         correctUTCTime(req[p].startTime)))
              >= ToNumber(ResolvedActiveBays(rev, req[p].locationId, DateKeyOf(p))) )
       => /\ pc'[p] = "done"
          /\ resp'[p].status = 409
          /\ bookings' = bookings
          /\ users' = users]_vars

\* C4: with requests served one after the other, every rewards entry has
\* loyaltyPoints in 0..9 and freeWashes >= 0.
C4_RewardsInvariant ==
  \A u \in Users, l \in Locations :
    /\ users[u].rewards[l].loyaltyPoints \in 0..9
    /\ users[u].rewards[l].freeWashes >= 0

\* a tenth point was converted and the free wash redeemed again
C4_Witness ==
  \E u \in Users, l \in Locations :
    /\ Quiet
    /\ users[u].rewards[l] = Entry(0, 0)
    /\ \E i \in DOMAIN bookings : bookings[i].userId = u /\ bookings[i].status = "paid"
    /\ \E i \in DOMAIN bookings : bookings[i].userId = u /\ bookings[i].status = "free"

\* C5: when only redemptions run, in any interleaving, freeWashes never
\* becomes negative.
C5_NoOverdraft ==
  (\A p \in Procs : req[p].kind \in {"none", "redeem"})
    => \A u \in Users, l \in Locations : users[u].rewards[l].freeWashes >= 0

\* accruals an entry stands for: 10 per free wash plus the points
Accrued(userDoc, l) ==
  LET e == LocationRewards(userDoc, l) IN
  pointsPerFreeWash * e.freeWashes + e.loyaltyPoints

\* the smallest value in S
MinOf(S) == CHOOSE x \in S : \A y \in S : x <= y

\* C6: when every handler has completed a paid commit of the same user at the
\* same location with 201, the rewards have grown by one accrual per commit.
\* The first profile read of these commits precedes every write, so the
\* smallest value read is the value before the requests.
C6_NoLostAccrual ==
  \A u \in Users, l \in Locations :
    (\A p \in Procs : /\ Finished(p, "commit")
                      /\ req[p].userId = u /\ req[p].locationId = l
                      /\ resp[p].status = 201)
      => Accrued(users[u], l)
           = MinOf({Accrued(local[p].userDoc, l) : p \in Procs}) + NumProcs

\* C7: the rewards write of a commit turns p < 9 points into p + 1 with the
\* free washes unchanged, and 9 points into 0 with one more free wash.
C7_AccrualStep ==
  [][\A p \in Procs :
       (req[p].kind = "commit" /\ Moves(p, "c_update"))
       => LET u == req[p].userId
              l == req[p].locationId
              old == users[u].rewards[l]
              new == users'[u].rewards[l]
          IN /\ resp'[p].status = 201
             /\ new.present
             /\ IF old.loyaltyPoints < 9
                  THEN /\ new.loyaltyPoints = old.loyaltyPoints + 1
                       /\ new.freeWashes = old.freeWashes
                  ELSE /\ new.loyaltyPoints = 0
                       /\ new.freeWashes = old.freeWashes + 1]_vars

\* a commit that read 9 points has answered 201 and left 0 points
C7_Witness ==
  \E p \in Procs :
    /\ Finished(p, "commit") /\ resp[p].status = 201
    /\ local[p].userDoc.rewards[req[p].locationId].loyaltyPoints = 9
    /\ users[req[p].userId].rewards[req[p].locationId].loyaltyPoints = 0
    /\ users[req[p].userId].rewards[req[p].locationId].freeWashes
         = local[p].userDoc.rewards[req[p].locationId].freeWashes + 1

\* C8: a redemption that finds no profile, no entry or freeWashes = 0 answers
\* 403 and changes neither the bookings nor the rewards.
C8_NoRewardAvailable ==
  [][\A p \in Procs :
       ( /\ req[p].kind = "redeem"
         /\ Moves(p, "r_getUser")
         /\ \/ ~users[req[p].userId].exists
            \/ ~users[req[p].userId].rewards[req[p].locationId].present
            \/ users[req[p].userId].rewards[req[p].locationId].freeWashes = 0 )
       => /\ pc'[p] = "done"
          /\ resp'[p].status = 403
          /\ bookings' = bookings
          /\ users' = users]_vars

\* a redemption on an entry with freeWashes = 0 has been refused
C8_Witness ==
  \E p \in Procs :
    /\ Finished(p, "redeem") /\ resp[p].status = 403
    /\ users[req[p].userId].rewards[req[p].locationId].present
    /\ users[req[p].userId].rewards[req[p].locationId].freeWashes = 0

\* C9: a redemption with freeWashes = n >= 1 stores one booking, status
\* 'free', bayId 1, two hours before the requested start, and leaves
\* freeWashes = n - 1 and the loyalty points as they were.
C9_Redemption ==
  [][\A p \in Procs :
       LET u == req[p].userId
           l == req[p].locationId
       IN
       /\ ( /\ req[p].kind = "redeem" /\ Moves(p, "r_getUser")
            /\ users[u].exists /\ users[u].rewards[l].present
            /\ users[u].rewards[l].freeWashes >= 1 )
          => pc'[p] = "r_add" /\ bookings' = bookings /\ users' = users
       /\ Moves(p, "r_add")
          => /\ pc'[p] = "r_update"
             /\ users' = users
             /\ bookings' = Append(bookings,
                  [userId |-> u, serviceId |-> req[p].serviceId, locationId |-> l,
                   startTime |-> req[p].startTime - 2 * MinutesPerHour,
                   status |-> "free", bayId |-> 1])
       /\ Moves(p, "r_update")
          => /\ resp'[p].status = 201
             /\ bookings' = bookings
             /\ users'[u].rewards[l].freeWashes = users[u].rewards[l].freeWashes - 1
             /\ users'[u].rewards[l].loyaltyPoints = users[u].rewards[l].loyaltyPoints
             /\ \A v \in Users \ {u} : users'[v] = users[v]]_vars

\* a redemption that read n = 2 free washes has answered 201 and left 1
C9_Witness ==
  \E p \in Procs :
    /\ Finished(p, "redeem") /\ resp[p].status = 201
    /\ local[p].userDoc.rewards[req[p].locationId].freeWashes = 2
    /\ users[req[p].userId].rewards[req[p].locationId].freeWashes = 1
    /\ bookings[local[p].docRef].status = "free"

\* C10: slot verification uses the daily record's activeBays when the date has
\* one, otherwise the global record's, otherwise 2.
C10_SettingsLookupOrder ==
  [][\A p \in Procs :
       (req[p].kind = "verify" /\ Moves(p, "v_settings"))
       => local'[p].activeBays
            = JSNum(DocumentedActiveBays(req[p].locationId, DateKeyOf(p)))]_vars

(* ----------------------------- availability ---------------------------- *)
\* handler p has answered an availability request that passed the past-date check
AvailAnswered(p) ==
  /\ Finished(p, "avail")
  /\ resp[p].status = 200
  /\ ~IsPastDate(req[p].date, local[p].enteredAt)

\* the elements of a sequence
Range(f) == {f[i] : i \in DOMAIN f}
\* the sequence is strictly increasing (for labels of one grid: in grid order)
Increasing(f) == \A i, j \in DOMAIN f : i < j => f[i] < f[j]
\* the HH:mm label of instant t in the reference timezone
SlotAt(t) == FormatHHmm(addMinutes(t, sastOffsetMinutes))
\* the labels a booking starting at t with duration d covers
CoveredLabels(t, d) ==
  {SlotAt(addMinutes(t, k * slotInterval)) : k \in 0..(Ceil(d, slotInterval) - 1)}

SingleBookingCase(p) ==
  /\ AvailAnswered(p)
  /\ FormatDate(local[p].answeredAt) < req[p].date
  /\ ToNumber(ResolvedActiveBays(rev, req[p].locationId, req[p].date)) = 1
  /\ \A s \in Range(AllSlots(req[p].date)) :
       <<req[p].date, s>> \notin blockedSlots[req[p].locationId]
  /\ Cardinality(DayBookings(req[p].locationId, req[p].date)) = 1
  /\ \A i \in DayBookings(req[p].locationId, req[p].date) :
       /\ ServiceExists(bookings[i].serviceId)
       /\ SlotAt(bookings[i].startTime) \in Range(AllSlots(req[p].date))

\* C12: With activeBays = 1, no blocked slot and a single booking that starts
\* at grid slot s for a service of duration d, availability for that future
\* date leaves out exactly the ceil(d/15) consecutive slots from s and returns
\* every other grid slot.
C12_SingleBookingExcludesItsSlots ==
  \A p \in Procs : SingleBookingCase(p) =>
    \A i \in DayBookings(req[p].locationId, req[p].date) :
      LET covered == CoveredLabels(bookings[i].startTime, ServiceDocs[bookings[i].serviceId])
          Left(s) == s \notin covered
      IN local[p].availableSlots = SelectSeq(AllSlots(req[p].date), Left)

\* a 20-minute booking at 09:00: 09:00 and 09:15 are left out, 08:45 and 09:30 returned
C12_Witness ==
  \E p \in Procs :
    /\ SingleBookingCase(p)
    /\ bookings[1].serviceId = "wash20"
    /\ SlotAt(bookings[1].startTime) = At(0, 9, 0)
    /\ At(0, 9, 0) \notin Range(local[p].availableSlots)
    /\ At(0, 9, 15) \notin Range(local[p].availableSlots)
    /\ At(0, 8, 45) \in Range(local[p].availableSlots)
    /\ At(0, 9, 30) \in Range(local[p].availableSlots)

\* C14: The slot grid for [open, close) with interval 15 is a strictly
\* increasing, duplicate-free sequence of HH:mm labels in the reference
\* timezone that starts at open, stays below close and has
\* (close - open) / interval labels: 32 labels, 08:00 to 15:45.
C14_SlotGrid ==
  \A p \in Procs :
    (pc[p] \in {"a_bookings", "a_services", "a_blocked"} \/ AvailAnswered(p)) =>
      LET g == local[p].allSlots
          open == SlotAt(At(0, openingHourUTC, 0))
          close == SlotAt(At(0, closingHourUTC, 0))
      IN /\ Len(g) = (close - open) \div slotInterval
         /\ Len(g) = 32
         /\ g[1] = open
         /\ g[1] = At(0, 8, 0)
         /\ g[Len(g)] = At(0, 15, 45)
         /\ \A i \in DOMAIN g : g[i] < close
         /\ \A i \in DOMAIN g : i > 1 => g[i] = g[i - 1] + slotInterval
         /\ \A i \in DOMAIN g : i > 1 => g[i - 1] < g[i]

\* a handler has built the grid of day 1
C14_Witness ==
  \E p \in Procs : pc[p] = "a_bookings" /\ req[p].date = 1 /\ Len(local[p].allSlots) > 0

\* quarter-hour labels of a day
QuarterLabels == {k * slotInterval : k \in 0..(MinutesPerDay \div slotInterval - 1)}

\* C15: Storing one booking b of a known service with duration d raises the
\* occupancy count of each of the ceil(d/15) consecutive labels starting at
\* slotAt(b.startTime) by exactly 1 and leaves every other count unchanged.
C15_OccupancyStep ==
  [][\A p \in Procs :
       (/\ Moves(p, "c_add")
        /\ Len(bookings') = Len(bookings) + 1
        /\ ServiceExists(req[p].serviceId)) =>
         LET b == bookings'[Len(bookings')]
             covered == CoveredLabels(b.startTime, ServiceDocs[b.serviceId])
         IN \A l \in Locations, date \in Dates, s \in QuarterLabels :
              OccupiedSlotCount(rev, l, date, s)' =
                OccupiedSlotCount(rev, l, date, s)
                  + (IF /\ l = b.locationId
                        /\ date = FormatDate(b.startTime)
                        /\ s \in covered
                       THEN 1 ELSE 0)]_vars

\* a 20-minute booking has just been added over a slot another booking covers
C15_Witness ==
  \E p \in Procs :
    /\ pc[p] = "c_getUser"
    /\ local[p].docRef = Len(bookings)
    /\ Len(bookings) = 2
    /\ bookings[2].serviceId = "wash20"
    /\ OccupiedSlotCount(rev, "loc1", 1, At(0, 9, 15)) = 2
    /\ OccupiedSlotCount(rev, "loc1", 1, At(0, 9, 30)) = 1

\* the calendar date the reference timezone (UTC+2) shows at instant t
TodaySAST(t) == FormatDate(addMinutes(t, sastOffsetMinutes))

\* C13: Availability for any date strictly before today (the date of the
\* reference timezone when the request arrives) returns the empty sequence
\* whatever is stored; for today or a later date the handler does not take
\* the past-date return.
C13_PastDateIsEmpty ==
  \A p \in Procs : Finished(p, "avail") =>
    /\ resp[p].status = 200
    /\ req[p].date < TodaySAST(local[p].enteredAt) => local[p].availableSlots = <<>>
    /\ req[p].date >= TodaySAST(local[p].enteredAt) => local[p].allSlots # <<>>

(* --------------------------- blocked slots ----------------------------- *)
\* C19: A toggle of (location, date, slot), with no other toggle between its
\* read and its write, flips the presence of exactly that blocked-slot
\* document; two successive toggles therefore return the set to its prior
\* state (absent -> created -> deleted; existing -> deleted -> re-created).
C19_ToggleTwiceRestores ==
  [][\A p \in Procs : Moves(p, "t_write") =>
       LET l == req[p].locationId
           key == <<req[p].date, req[p].slot>>
       IN /\ key \in blockedSlots[l] => blockedSlots'[l] = blockedSlots[l] \ {key}
          /\ key \notin blockedSlots[l] => blockedSlots'[l] = blockedSlots[l] \cup {key}
          /\ resp'[p].status = 200]_vars

\* the second of two toggles has found the document the first one created
\* and deleted it: the set is empty as it was at the start
C19_Witness ==
  \E p \in Procs :
    /\ Finished(p, "toggle")
    /\ resp[p].status = 200
    /\ local[p].exists
    /\ blockedSlots[req[p].locationId] = {}

(* -------------------------- missing service ---------------------------- *)
\* occupancy of label s counted over the bookings whose service record exists
KnownServiceCount(l, date, s) ==
  Cardinality({i \in DayBookings(l, date) :
     /\ ServiceExists(bookings[i].serviceId)
     /\ s \in CoveredLabels(bookings[i].startTime, ServiceDocs[bookings[i].serviceId])})

\* C20: A stored booking whose service record is missing contributes nothing
\* to occupancy: availability answers 200 with the slots it would return if
\* that booking were absent.
C20_MissingServiceIsSkipped ==
  \A p \in Procs : AvailAnswered(p) =>
    LET l == req[p].locationId
        date == req[p].date
        Free(s) == /\ KnownServiceCount(l, date, s) < ToNumber(local[p].activeBays)
                   /\ <<date, s>> \notin blockedSlots[l]
    IN local[p].unfiltered = SelectSeq(AllSlots(date), Free)

(* ------------------------- failing store calls ------------------------- *)
\* the awaits of a commit that follow its booking write
AfterBookingWrite == {"c_getUser", "c_setProfile", "c_getUser2", "c_update"}

\* C17: If storing the booking fails, the commit answers with a failure and
\* no booking id, and no booking and no reward is written; as long as a
\* commit has not stored its booking none of its steps changes a profile,
\* and a commit is at its profile and reward calls only with its booking stored.
C17_BookingWriteFailure ==
  [][\A p \in Procs :
       /\ (pc[p] = "c_add" /\ pc'[p] = "done") =>
            /\ resp'[p].status = 500
            /\ resp'[p].bookingId = 0
            /\ bookings' = bookings
            /\ users' = users
       /\ (pc[p] \in CommitAwaits /\ local'[p].docRef = 0) => users' = users
       /\ pc'[p] \in AfterBookingWrite =>
            /\ local'[p].docRef \in DOMAIN bookings'
            /\ bookings'[local'[p].docRef] = PaidBooking(req'[p], local'[p].size)]_vars

\* the booking write of a commit by a user one point short of a free wash failed
C17_Witness ==
  \E p \in Procs :
    /\ Finished(p, "commit")
    /\ local[p].error = "c_add"
    /\ resp[p] = Resp(500)
    /\ bookings = <<>>
    /\ users[req[p].userId] = Profile(Entry(9, 1))

\* C18: If loading the profile or accruing the reward fails after the booking
\* write succeeded, the booking stays stored and the commit still answers
\* with the booking id.
C18_RewardFailureIsNotFatal ==
  \A p \in Procs :
    (Finished(p, "commit") /\ local[p].error \in AfterBookingWrite) =>
      /\ local[p].docRef \in DOMAIN bookings
      /\ resp[p].status = 201
      /\ resp[p].bookingId = local[p].docRef

(* ----------------------------- idempotence ----------------------------- *)
\* handlers p and q have both answered availability for the same (location, date)
SameQuestion(p, q) ==
  /\ p # q
  /\ Finished(p, "avail") /\ resp[p].status = 200
  /\ Finished(q, "avail") /\ resp[q].status = 200
  /\ req[p].locationId = req[q].locationId
  /\ req[p].date = req[q].date

\* the date is after the server's today when handler p answers
AfterToday(p) == FormatDate(local[p].answeredAt) < req[p].date
\* the date is before the server's today when the request reaches handler p
BeforeToday(p) == IsPastDate(req[p].date, local[p].enteredAt)
\* the date is the server's today when handler p answers
IsToday(p) == ~BeforeToday(p) /\ IsSameDay(req[p].date, local[p].answeredAt)

\* the date is today at handler p's answer for the server and in the
\* reference timezone alike
IsTodayEverywhere(p) == IsToday(p) /\ TodaySAST(local[p].answeredAt) = req[p].date

\* C16 as stated, in its case "including today": Two availability calls for
\* the same (location, date) with no store write between them return
\* identical sequences when the date is today at both calls.
C16_SameAnswerToday ==
  \A p, q \in Procs :
    (SameQuestion(p, q) /\ IsTodayEverywhere(p) /\ IsTodayEverywhere(q)) =>
      local[p].availableSlots = local[q].availableSlots

\* C16 amended: Two availability calls for the same (location, date) with no
\* store write between them return identical sequences when the date is
\* after today at both calls, or before today at both calls, or is today and
\* both calls read the same minute of the clock.
C16_SameAnswerWhileClockAgrees ==
  \A p, q \in Procs :
    (/\ SameQuestion(p, q)
     /\ \/ AfterToday(p) /\ AfterToday(q)
        \/ BeforeToday(p) /\ BeforeToday(q)
        \/ /\ IsToday(p) /\ IsToday(q)
           /\ NowSAST(local[p].answeredAt) = NowSAST(local[q].answeredAt)) =>
      local[p].availableSlots = local[q].availableSlots

\* tomorrow's availability was asked for twice, 20 minutes apart, and is not empty
C16_Witness ==
  \E p, q \in Procs :
    /\ SameQuestion(p, q)
    /\ AfterToday(p) /\ AfterToday(q)
    /\ local[p].answeredAt # local[q].answeredAt
    /\ local[p].availableSlots # <<>>
    /\ bookings # <<>>

(* --------------------------- same-day cutoff --------------------------- *)
\* C21: When the requested date is today in the reference timezone (UTC+2),
\* the answer holds no slot label at or before the current reference
\* time-of-day and holds every otherwise-available label after it, at every
\* clock time, the hours where the UTC date is a day behind included.
C21_SameDayCutoff ==
  \A p \in Procs :
    (AvailAnswered(p) /\ TodaySAST(local[p].answeredAt) = req[p].date) =>
      LET timeOfDay == FormatHHmm(local[p].answeredAt + sastOffsetMinutes)
      IN /\ \A s \in Range(local[p].availableSlots) : s > timeOfDay
         /\ \A s \in Range(local[p].unfiltered) :
              s > timeOfDay => s \in Range(local[p].availableSlots)

\* one answer given at 14:00 of the day asked for (14:00 is dropped, 14:15
\* kept), another given at 00:30 of the day asked for, when the server's UTC
\* date is still the day before
C21_Witness ==
  \E p, q \in Procs :
    /\ AvailAnswered(p) /\ TodaySAST(local[p].answeredAt) = req[p].date
    /\ FormatDate(local[p].answeredAt) # req[p].date
    /\ local[p].availableSlots # <<>>
    /\ AvailAnswered(q) /\ TodaySAST(local[q].answeredAt) = req[q].date
    /\ FormatHHmm(local[q].answeredAt + sastOffsetMinutes) = At(0, 14, 0)
    /\ At(0, 14, 0) \in Range(local[q].unfiltered)
    /\ At(0, 14, 0) \notin Range(local[q].availableSlots)
    /\ At(0, 14, 15) \in Range(local[q].availableSlots)

(* -------------------------------- bays --------------------------------- *)
\* C22: The bookings stored for one location and one start instant have
\* pairwise distinct bayId values, each in 1..activeBays, whatever mix of
\* paid commits and free-wash redemptions created them (stated for the
\* instants that hold no more bookings than activeBays allows).
C22_DistinctBays ==
  \A l \in Locations, i \in DOMAIN bookings :
    LET t == bookings[i].startTime
        bays == DocumentedActiveBays(l, FormatDate(t))
    IN (bookings[i].locationId = l /\ Cardinality(ExistingBookings(l, t)) <= bays) =>
         /\ bookings[i].bayId \in 1..bays
         /\ \A j \in ExistingBookings(l, t) : j # i => bookings[j].bayId # bookings[i].bayId

(* -------------------------- concurrent toggles ------------------------- *)
\* C23: Whatever the interleaving of concurrent toggles, each store write of
\* a toggle leaves its key as the document read by that toggle decides
\* (present when it was read absent, absent when it was read present) and
\* touches no other key: the final state is the one the last write wrote.
C23_LastWriteWins ==
  [][\A p \in Procs :
       (Moves(p, "t_write") /\ req[p].kind = "toggle") =>
         LET key == <<req[p].date, req[p].slot>>
             l == req[p].locationId
         IN /\ (key \in blockedSlots'[l]) = ~local[p].exists
            /\ blockedSlots'[l] \ {key} = blockedSlots[l] \ {key}
            /\ resp'[p].status = 200]_vars

\* two toggles of one key both read it absent, both wrote it and both
\* answered 'blocked'; the slot is blocked, which two toggles one after the
\* other never leave
C23_Witness ==
  \E p, q \in Procs :
    /\ p # q
    /\ Finished(p, "toggle") /\ Finished(q, "toggle")
    /\ req[p] = req[q]
    /\ ~local[p].exists /\ ~local[q].exists
    /\ resp[p].status = 200 /\ resp[q].status = 200
    /\ <<req[p].date, req[p].slot>> \in blockedSlots[req[p].locationId]

(* ---------------------- stored instant and label ----------------------- *)
\* C24: A booking committed with a requested start time whose time-of-day is
\* grid label L is stored at the instant 2 hours earlier, and the occupancy
\* computation counts it under label L of the requested calendar date:
\* slotAt(requested - 2h) = label(requested), for every label of the grid.
C24_StoredUnderRequestedLabel ==
  [][\A p \in Procs :
       (Moves(p, "c_add") /\ req[p].kind = "commit") =>
         LET requested == req[p].startTime
             stored == bookings'[Len(bookings')].startTime
             l == req[p].locationId
             date == FormatDate(requested)
             label == FormatHHmm(requested)
         IN /\ Len(bookings') = Len(bookings) + 1
            /\ stored = requested - 2 * MinutesPerHour
            /\ SlotAt(stored) = label
            /\ OccupiedSlotCount(rev, l, date, label)' =
                 OccupiedSlotCount(rev, l, date, label) + 1]_vars

\* bookings were committed at the first label of the grid (08:00) and at the
\* last (15:45)
C24_Witness ==
  /\ Finished(1, "commit") /\ resp[1].status = 201
  /\ req[1].startTime \in {At(1, 8, 0), At(1, 15, 45)}
  /\ OccupiedSlotCount(rev, req[1].locationId, 1, FormatHHmm(req[1].startTime)) = 1

\* C25: Every slot label a stored booking occupies (the ceil(duration/15)
\* labels from its start) is a label of the grid generated for its date.
C25_OccupiedLabelsOnGrid ==
  \A i \in DOMAIN bookings :
    ServiceExists(bookings[i].serviceId) =>
      CoveredLabels(bookings[i].startTime, ServiceDocs[bookings[i].serviceId])
        \subseteq Range(AllSlots(FormatDate(addMinutes(bookings[i].startTime,
                                                       sastOffsetMinutes))))

(* ------------------------- settings updates ---------------------------- *)
\* C26: After any sequence of settings updates the activeBays resolved for a
\* date whose record the manager has written is an integer >= 1, and an
\* update whose count is below 1 or is not a number is answered 400 and
\* leaves the settings as they were.
C26_ActiveBaysAtLeastOne ==
  /\ \A l \in Locations, date \in Dates :
       settings[l].daily[date].exists =>
         /\ ResolvedActiveBays(rev, l, date).kind = "number"
         /\ ToNumber(ResolvedActiveBays(rev, l, date)) >= 1
  /\ \A p \in Procs :
       (Finished(p, "settings")
        /\ (req[p].count.kind # "number" \/ req[p].count.n < 1)) =>
         resp[p].status = 400

(* ------------------------- missing profile ----------------------------- *)
\* C27: A paid commit by a user who has no profile creates the profile and
\* accrues one point: once the booking is stored the commit answers 201 and
\* the user's entry for the location is loyaltyPoints = 1, freeWashes = 0;
\* no commit stores a booking and answers that the user was not found.
C27_MissingProfileIsCreated ==
  \A p \in Procs :
    (Finished(p, "commit") /\ local[p].docRef # 0) =>
      /\ resp[p].status # 404
      /\ ~LocationRewards(local[p].userDoc, req[p].locationId).present =>
           /\ resp[p].status = 201
           /\ users[req[p].userId].exists
           /\ users[req[p].userId].rewards[req[p].locationId] = Entry(1, 0)

(* ---------------------- commit and availability ------------------------ *)
\* the labels availability lists for (l, date) over the store as it stands,
\* before the same-day cutoff
ListedSlots(l, date) ==
  AvailableSlots(AllSlots(date), rev, DayBookings(l, date),
                 ResolvedActiveBays(rev, l, date),
                 {ds[2] : ds \in {x \in blockedSlots[l] : x[1] = date}})

\* C28: A commit stores a booking for (location, t) only if availability
\* for that location and date, computed over the same store, lists slotAt(t)
\* (stated for dates with a daily settings record and for instants that
\* hold fewer bookings than activeBays).
C28_CommitOnlyIntoListedSlot ==
  [][\A p \in Procs :
       LET l == req[p].locationId
           t == correctUTCTime(req[p].startTime)
           date == FormatDate(req[p].startTime)
       IN (/\ Moves(p, "c_add") /\ req[p].kind = "commit"
           /\ settings[l].daily[date].exists
           /\ Cardinality(ExistingBookings(l, t)) < DocumentedActiveBays(l, date)) =>
            SlotAt(t) \in Range(ListedSlots(l, date))]_vars

(* ------------------------- verify and commit --------------------------- *)
\* what POST /api/bookings/verify-slot answers for (l, startTime) over the
\* store as it stands
VerifyAnswer(l, startTime) ==
  LET t == correctUTCTime(startTime)
  IN IF Cardinality(ExistingBookings(l, t)) >=
          ToNumber(ResolvedActiveBays(rev, l, FormatDate(t)))
       THEN 409 ELSE 200

\* C29: Verification and commit agree: a commit stores a booking for
\* (location, startTime) only when verify-slot, asked over the same store,
\* answers available (stated for dates with a daily settings record).
C29_VerifyAndCommitAgree ==
  [][\A p \in Procs :
       LET l == req[p].locationId
           dateKey == FormatDate(correctUTCTime(req[p].startTime))
       IN (/\ Moves(p, "c_add") /\ req[p].kind = "commit"
           /\ rev = "index"
           /\ settings[l].daily[dateKey].exists) =>
            VerifyAnswer(l, req[p].startTime) = 200]_vars

(* ------------------------------ ledger --------------------------------- *)
\* stored bookings of user u at location l with the given status
BookingsOf(u, l, status) ==
  {i \in DOMAIN bookings :
     bookings[i].userId = u /\ bookings[i].locationId = l /\ bookings[i].status = status}

\* C30: Whenever every request has run to completion, for every user and
\* location: 10 x (freeWashes + stored 'free' bookings) + loyaltyPoints =
\* stored 'paid' bookings, starting from no bookings and no rewards.
C30_LedgerBalance ==
  Quiet =>
    \A u \in Users, l \in Locations :
      pointsPerFreeWash * (users[u].rewards[l].freeWashes
                           + Cardinality(BookingsOf(u, l, "free")))
        + users[u].rewards[l].loyaltyPoints
      = Cardinality(BookingsOf(u, l, "paid"))

====
